---- MODULE Spec2Model ----
(***************************************************************************)
(* Model of the dataset construction and 3D reconstruction pipeline of     *)
(* ivadomed:                                                               *)
(*   - test() of ivadomed/testing.py: the reconstruction of volumes from   *)
(*     per-sample predictions, with Monte-Carlo passes (SpecTest);         *)
(*   - dropout_input() of ivadomed/loader/loader.py (SpecDropout);         *)
(*   - load_dataset() of ivadomed/loader/loader.py (SpecLoad);             *)
(*   - the sub-volume indexer behind Bids3DDataset (SpecIndexer);          *)
(*   - automate_training() of ivadomed/scripts/automate_training.py: the   *)
(*     pool of workers and the iterations (SpecAutomate);                  *)
(*   - get_param_list() and make_config_list() of the same script          *)
(*     (SpecConfig);                                                       *)
(*   - get_midslice_average() of ivadomed/preprocessing.py and of          *)
(*     ivadomed/prepare_dataset.py (SpecMidslice).                         *)
(* Every specification keeps the variables of the other components at     *)
(* their idle values.                                                      *)
(***************************************************************************)
EXTENDS Integers, Sequences, FiniteSets, TLC

VARIABLES
    \* ---- test() ----
    context,          \* configuration read by test(): unet_3D, uncertainty
    testing_params,   \* testing_params: batch_size, uncertainty
    dataset_test,     \* the samples of the test dataset, in loader order
    n_monteCarlo,     \* number of passes (testing.py:60/66)
    i_monteCarlo,     \* index of the current pass
    i,                \* index of the current batch
    smp_idx,          \* index of the current sample within the batch
    pred_tmp_lst,     \* buffered predictions
    z_tmp_lst,        \* buffered slice indices
    fname_tmp,        \* filename of the volume being assembled
    saved,            \* the calls of pred_to_nib so far, in order
    n_label,          \* number of label channels of a prediction (testing.py:125)
    color_saved,      \* the calls of save_color_labels so far, in order
    uncertainty_runs, \* number of calls of run_uncertainty
    pc,               \* position in test()
    \* ---- dropout_input() ----
    seg_pair,         \* seg_pair['input']: channel index -> channel data
    seg_pair_in,      \* the input as it was passed to dropout_input
    random_n_dropped, \* the count drawn at loader.py:138
    n_dropped,        \* n_dropped
    idx_empty,        \* idx_empty
    idx_dropped,      \* idx_dropped
    warnings,         \* number of warnings logged
    dpc,              \* position in dropout_input()
    \* ---- load_dataset() ----
    model_params,     \* model_params, a dictionary
    transforms_params, \* the keys of transforms_params
    roi_params,       \* roi_params, the caller's dictionary
    roi_params_in,    \* roi_params as the caller passed it
    constructed,      \* the datasets load_dataset has constructed, in order
    dataset,          \* the dataset load_dataset returns
    lpc,              \* position in load_dataset()
    \* ---- the sub-volume indexer of Bids3DDataset ----
    vol_shape,        \* the shape of the volume of a filename pair
    axis_origins,     \* the origins found along each axis
    indices,          \* the 3D origins of the sub-volumes, in order
    ipc,              \* position in Bids3DDataset.__init__
    \* ---- automate_training(): the pool and the iterations ----
    fixed_split,      \* fixed_split
    run_test,         \* run_test
    n_iterations,     \* n_iterations
    gpu_ids,          \* initial_config["gpu_ids"]
    split_path,       \* initial_config.get("split_path")
    fname_split,      \* initial_config["split_dataset"]["fname_split"]
    pool_config_list, \* config_list as it is handed to pool.map
    iteration,        \* the loop variable i of automate_training
    validation_scores, \* validation_scores: None while never assigned
    queue,            \* the tasks of the running pool.map not yet taken
    running,          \* worker -> the task it runs and the GPU it uses, or None
    train_count,      \* config -> number of calls of train_worker
    test_count,       \* config -> number of calls of test_worker
    apc,              \* position in automate_training()
    \* ---- get_param_list() and make_config_list() ----
    config_hyper,     \* the hyperparameter file
    initial_config,   \* the base configuration
    all_combin,       \* all_combin
    multi_params,     \* multi_params
    param_list,       \* the list get_param_list returns
    config_list,      \* the list make_config_list returns
    mpc,              \* position in the two calls
    \* ---- get_midslice_average() ----
    arr_shape,        \* arr.shape[0]: the number of slices along the slice axis
    ind,              \* ind, the index of the slice to average around
    numb_of_slice,    \* numb_of_slice
    mid,              \* the indices of the slices np.mean is given
    spc               \* position in get_midslice_average()

test_vars == <<context, testing_params, dataset_test, n_monteCarlo, i_monteCarlo, i,
               smp_idx, pred_tmp_lst, z_tmp_lst, fname_tmp, saved, n_label, color_saved,
               uncertainty_runs, pc>>

dropout_vars == <<seg_pair, seg_pair_in, random_n_dropped, n_dropped, idx_empty,
                  idx_dropped, warnings, dpc>>

load_vars == <<model_params, transforms_params, roi_params, roi_params_in, constructed,
               dataset, lpc>>

indexer_vars == <<vol_shape, axis_origins, indices, ipc>>

auto_vars == <<fixed_split, run_test, n_iterations, gpu_ids, split_path, fname_split,
               pool_config_list, iteration, validation_scores, queue, running,
               train_count, test_count, apc>>

config_vars == <<config_hyper, initial_config, all_combin, multi_params, param_list,
                 config_list, mpc>>

midslice_vars == <<arr_shape, ind, numb_of_slice, mid, spc>>

vars == <<test_vars, dropout_vars, load_vars, indexer_vars, auto_vars, config_vars,
          midslice_vars>>

\* what test() leaves alone
not_test_vars == <<dropout_vars, load_vars, indexer_vars, auto_vars, config_vars,
    midslice_vars>>

\* what dropout_input() leaves alone
not_dropout_vars == <<test_vars, load_vars, indexer_vars, auto_vars, config_vars,
    midslice_vars>>

\* what load_dataset() leaves alone
not_load_vars == <<test_vars, dropout_vars, indexer_vars, auto_vars, config_vars,
    midslice_vars>>

\* what the construction of a Bids3DDataset leaves alone
not_indexer_vars == <<test_vars, dropout_vars, auto_vars, config_vars,
    midslice_vars>>

\* what automate_training() leaves alone
not_auto_vars == <<test_vars, dropout_vars, load_vars, indexer_vars, config_vars,
    midslice_vars>>

\* what get_param_list() and make_config_list() leave alone
not_config_vars == <<test_vars, dropout_vars, load_vars, indexer_vars, auto_vars,
    midslice_vars>>

\* what get_midslice_average() leaves alone
not_midslice_vars == <<test_vars, dropout_vars, load_vars, indexer_vars, auto_vars,
    config_vars>>

\* Python's None
None == <<>>

-----------------------------------------------------------------------------
\* The state of each component while it is not running

\* test() is not running
TestIdle ==
    /\ context = [unet_3D |-> FALSE, binarize_prediction |-> FALSE,
                  uncertainty |-> [epistemic |-> FALSE, aleatoric |-> FALSE, n_it |-> 0]]
    /\ testing_params = [batch_size |-> 1,
                         uncertainty |-> [epistemic |-> FALSE, aleatoric |-> FALSE, n_it |-> 0]]
    /\ dataset_test = <<>>
    /\ n_monteCarlo = 0
    /\ i_monteCarlo = 0
    /\ i = 0
    /\ smp_idx = 0
    /\ pred_tmp_lst = <<>>
    /\ z_tmp_lst = <<>>
    /\ fname_tmp = <<>>
    /\ saved = <<>>
    /\ n_label = 1
    /\ color_saved = <<>>
    /\ uncertainty_runs = 0
    /\ pc = "idle"

\* dropout_input() is not running
DropoutIdle ==
    /\ seg_pair = <<>>
    /\ seg_pair_in = <<>>
    /\ random_n_dropped = 0
    /\ n_dropped = 0
    /\ idx_empty = {}
    /\ idx_dropped = <<>>
    /\ warnings = 0
    /\ dpc = "idle"

\* load_dataset() is not running
LoadIdle ==
    /\ model_params = [name |-> "Unet"]
    /\ transforms_params = {}
    /\ roi_params = [suffix |-> None, slice_filter_roi |-> None]
    /\ roi_params_in = [suffix |-> None, slice_filter_roi |-> None]
    /\ constructed = <<>>
    /\ dataset = None
    /\ lpc = "idle"

\* no volume is being indexed
IndexerIdle ==
    /\ vol_shape = <<>>
    /\ axis_origins = <<>>
    /\ indices = <<>>
    /\ ipc = "idle"

\* automate_training() is not running
AutoIdle ==
    /\ fixed_split = FALSE
    /\ run_test = FALSE
    /\ n_iterations = 0
    /\ gpu_ids = <<>>
    /\ split_path = None
    /\ fname_split = None
    /\ pool_config_list = <<>>
    /\ iteration = 0
    /\ validation_scores = None
    /\ queue = <<>>
    /\ running = <<>>
    /\ train_count = <<>>
    /\ test_count = <<>>
    /\ apc = "idle"

\* no list of configurations is being made
ConfigIdle ==
    /\ config_hyper = <<>>
    /\ initial_config = <<>>
    /\ all_combin = FALSE
    /\ multi_params = FALSE
    /\ param_list = <<>>
    /\ config_list = <<>>
    /\ mpc = "idle"

\* get_midslice_average() is not running
MidsliceIdle ==
    /\ arr_shape = 0
    /\ ind = 0
    /\ numb_of_slice = 0
    /\ mid = {}
    /\ spc = "idle"

-----------------------------------------------------------------------------
\* Bounds of the model
MaxSamples == 3
MaxIt == 2
MaxBatch == 2
MaxChannels == 4
MaxDim == 4
MaxPatch == 2
MaxStride == 2
MaxSlices == 10

Subjects == {"sub-01", "sub-02"}
LabelCounts == {1, 2}
SliceIndices == {0, 1}

-----------------------------------------------------------------------------
\* Generic helpers on sequences
Range(s) == {s[k] : k \in DOMAIN s}

SeqsUpTo(S, n) == UNION {[1..m -> S] : m \in 0..n}

Min(a, b) == IF a < b THEN a ELSE b

-----------------------------------------------------------------------------
\* File names are sequences of tokens; the string operations of the code are
\* modelled on the tokens.

\* context['target_suffix'][0]
target_suffix == "_seg-manual"

\* metadata_idx[0]['gt_filenames'][0] of a sample of subject s
GtFilename(s) == <<"data", "/", s, "_T2w", target_suffix, ".nii.gz">>

\* path_3Dpred = os.path.join(log_directory, 'pred_masks')
path_3Dpred == <<"log", "/", "pred_masks">>

\* f.split(tok)[0]: what precedes the first occurrence of tok (all of f if none)
SplitFirst(f, tok) ==
    IF \E k \in DOMAIN f : f[k] = tok
    THEN SubSeq(f, 1, (CHOOSE k \in DOMAIN f : f[k] = tok /\ \A j \in 1..(k-1) : f[j] # tok) - 1)
    ELSE f

\* f.split(tok)[-1]: what follows the last occurrence of tok (all of f if none)
SplitLast(f, tok) ==
    IF \E k \in DOMAIN f : f[k] = tok
    THEN SubSeq(f, (CHOOSE k \in DOMAIN f : f[k] = tok /\ \A j \in (k+1)..Len(f) : f[j] # tok) + 1, Len(f))
    ELSE f

\* os.path.join(a, b)
PathJoin(a, b) == a \o <<"/">> \o b

\* str(d) of one decimal digit
Digit(d) == <<"0", "1", "2", "3", "4", "5", "6", "7", "8", "9">>[d + 1]

\* str(n).zfill(2), for n < 100: two decimal digits
Zfill2(n) == <<Digit(n \div 10), Digit(n % 10)>>

\* the pass suffix is added when there is more than one pass
HasPassSuffix(n_mc) == n_mc > 1

\* fname_pred of testing.py:136-141 (2D, from fname_tmp) and 171-175 (3D, from fname_ref)
FnamePred(fname, n_mc, i_mc) ==
    LET joined == PathJoin(path_3Dpred, SplitLast(fname, "/"))
        plain  == SplitFirst(joined, target_suffix) \o <<"_pred", ".nii.gz">>
    IN  IF HasPassSuffix(n_mc)
        THEN SplitFirst(plain, ".nii.gz") \o <<"_">> \o Zfill2(i_mc) \o <<".nii.gz">>
        ELSE plain

-----------------------------------------------------------------------------
\* test(): the data loader

\* len(test_loader): the number of batches of the DataLoader (drop_last is False)
NumBatches == (Len(dataset_test) + testing_params.batch_size - 1) \div testing_params.batch_size

\* position in dataset_test of sample s of batch b (shuffle=False)
SamplePos(b, s) == b * testing_params.batch_size + s + 1

\* len(batch['gt']) of batch b
BatchLen(b) == Min(testing_params.batch_size, Len(dataset_test) - b * testing_params.batch_size)

\* a variant of the uncertainty condition that does not look at n_it
UncertaintyOn_AnyCount(u) == u.epistemic \/ u.aleatoric

\* the uncertainty condition of testing.py:58-59
UncertaintyOn(u) == (u.epistemic \/ u.aleatoric) /\ u.n_it > 0

Uncertainties == [epistemic : BOOLEAN, aleatoric : BOOLEAN, n_it : 0..MaxIt]

Samples == [fname : {GtFilename(s) : s \in Subjects}, slice_index : SliceIndices]

\* test() reads the uncertainty settings from testing_params (testing.py:58)
\* and from context (testing.py:87, 205): one configuration, held by both
TestInit ==
    /\ \E u \in Uncertainties, b3 \in BOOLEAN, bp \in BOOLEAN, bs \in 1..MaxBatch :
          /\ context = [unet_3D |-> b3, binarize_prediction |-> bp, uncertainty |-> u]
          /\ testing_params = [batch_size |-> bs, uncertainty |-> u]
    /\ dataset_test \in SeqsUpTo(Samples, MaxSamples)
    /\ n_monteCarlo = 0
    /\ i_monteCarlo = 0
    /\ i = 0
    /\ smp_idx = 0
    /\ pred_tmp_lst = <<>>
    /\ z_tmp_lst = <<>>
    /\ fname_tmp = <<>>
    /\ saved = <<>>
    /\ n_label \in LabelCounts
    /\ color_saved = <<>>
    /\ uncertainty_runs = 0
    /\ pc = "start"

\* testing.py:57-66
UncertaintySettings ==
    /\ UNCHANGED not_test_vars
    /\ pc = "start"
    /\ n_monteCarlo' = IF UncertaintyOn(testing_params.uncertainty)
                       THEN testing_params.uncertainty.n_it ELSE 1
    /\ i_monteCarlo' = 0
    /\ pc' = "pass"
    /\ UNCHANGED <<context, testing_params, dataset_test, i, smp_idx, pred_tmp_lst,
                   z_tmp_lst, fname_tmp, saved, n_label, color_saved, uncertainty_runs>>

\* a variant of the head of a pass that keeps the buffer of the pass before
StartPass_KeepsBuffer ==
    /\ UNCHANGED not_test_vars
    /\ pc = "pass"
    /\ i_monteCarlo < n_monteCarlo
    /\ i' = 0
    /\ smp_idx' = 0
    /\ pc' = "batch"
    /\ UNCHANGED <<context, testing_params, dataset_test, n_monteCarlo, i_monteCarlo,
                   pred_tmp_lst, z_tmp_lst, fname_tmp, saved, n_label, color_saved,
                   uncertainty_runs>>

\* testing.py:68-70: the head of one pass
StartPass ==
    /\ UNCHANGED not_test_vars
    /\ pc = "pass"
    /\ i_monteCarlo < n_monteCarlo
    /\ pred_tmp_lst' = <<>>
    /\ z_tmp_lst' = <<>>
    /\ fname_tmp' = <<>>
    /\ i' = 0
    /\ smp_idx' = 0
    /\ pc' = "batch"
    /\ UNCHANGED <<context, testing_params, dataset_test, n_monteCarlo, i_monteCarlo,
                   saved, n_label, color_saved, uncertainty_runs>>

\* a variant of the flush condition without the clause for the last sample
NewProcessedFile_KeyOnly(fname_ref) ==
    /\ pred_tmp_lst # <<>>
    /\ fname_ref # fname_tmp

\* a variant of the flush condition that does not look at the buffer
NewProcessedFile_AnyBuffer(fname_ref) ==
    \/ fname_ref # fname_tmp
    \/ (i = NumBatches - 1 /\ smp_idx = BatchLen(i) - 1)

\* the condition of testing.py:133-134
NewProcessedFile(fname_ref) ==
    /\ pred_tmp_lst # <<>>
    /\ \/ fname_ref # fname_tmp
       \/ (i = NumBatches - 1 /\ smp_idx = BatchLen(i) - 1)

\* a variant of BinThr that asks for a threshold whatever the configuration
BinThr_Always(ctx) == 5

\* bin_thr of testing.py:149 and 184, in tenths: 0.5 or -1
BinThr(ctx) == IF ctx.binarize_prediction THEN 5 ELSE -10

\* the call of pred_to_nib, recorded with the pass it was made in
PredToNib(data_lst, z_lst, fname_ref, fname_out, kernel_dim) ==
    [data_lst |-> data_lst, z_lst |-> z_lst, fname_ref |-> fname_ref,
     fname_out |-> fname_out, kernel_dim |-> kernel_dim, bin_thr |-> BinThr(context),
     pass |-> i_monteCarlo]

\* the values a prediction array holds, in tenths: the model's soft output
SoftValues == {0, 3, 7, 10}

\* threshold_predictions: 1 at and above the threshold, 0 below (in tenths)
ThresholdPredictions(vals, thr) == {IF v >= thr THEN 10 ELSE 0 : v \in vals}

\* the values of the volume pred_to_nib writes for a call: thresholded when
\* bin_thr is not negative, left as predicted otherwise
NibData(call) ==
    IF call.bin_thr >= 0 THEN ThresholdPredictions(SoftValues, call.bin_thr) ELSE SoftValues

\* output_nii.get_fdata().shape[0] of a volume of several labels: pred_to_nib
\* keeps the label axis first
NibChannels(call) == n_label

\* batch['input_metadata'][smp_idx][0]['input_filenames'] of a sample: the
\* image the ground truth of the sample was drawn on
InputFilenames(smp) == SplitFirst(smp.fname, target_suffix) \o <<".nii.gz">>

\* fname_pred.split(".nii.gz")[0] + '_color.nii.gz' (testing.py:154, 191)
ColorName(fname_pred) == SplitFirst(fname_pred, ".nii.gz") \o <<"_color", ".nii.gz">>

\* the call of save_color_labels that follows the next call of pred_to_nib,
\* recorded with the values of the array it is given
SaveColorLabels(gt_data, fname_in, fname_out) ==
    [gt_data |-> gt_data, binarize |-> context.binarize_prediction, fname_in |-> fname_in,
     fname_out |-> fname_out, volume |-> Len(saved) + 1, pass |-> i_monteCarlo]

\* testing.py:121-192: one sample of the batch, then the loop counters
ReconstructSample ==
    /\ UNCHANGED not_test_vars
    /\ pc = "batch"
    /\ i < NumBatches
    /\ LET smp == dataset_test[SamplePos(i, smp_idx)]
           \* the prediction of this sample in this pass
           preds_idx_arr == <<i_monteCarlo, SamplePos(i, smp_idx)>>
           fname_ref == smp.fname
       IN  IF ~context.unet_3D
           THEN /\ IF NewProcessedFile(fname_ref)
                   THEN LET fname_pred == FnamePred(fname_tmp, n_monteCarlo, i_monteCarlo)
                            output_nii == PredToNib(pred_tmp_lst, z_tmp_lst, fname_tmp,
                                                    fname_pred, "2d")
                        IN  /\ saved' = Append(saved, output_nii)
                            \* testing.py:150-156: the colour labels are made from
                            \* the data of the saved volume
                            /\ color_saved' =
                                  IF NibChannels(output_nii) > 1
                                  THEN Append(color_saved,
                                           SaveColorLabels(NibData(output_nii), fname_tmp,
                                                           ColorName(fname_pred)))
                                  ELSE color_saved
                            /\ pred_tmp_lst' = <<preds_idx_arr>>
                            /\ z_tmp_lst' = <<smp.slice_index>>
                   ELSE /\ saved' = saved
                        /\ color_saved' = color_saved
                        /\ pred_tmp_lst' = Append(pred_tmp_lst, preds_idx_arr)
                        /\ z_tmp_lst' = Append(z_tmp_lst, smp.slice_index)
                /\ fname_tmp' = fname_ref
           ELSE LET fname_pred == FnamePred(fname_ref, n_monteCarlo, i_monteCarlo)
                IN  /\ saved' = Append(saved,
                           PredToNib(<<preds_idx_arr>>, <<>>, fname_ref, fname_pred, "3d"))
                    \* testing.py:186-192: the colour labels are made from
                    \* preds_idx_arr, the prediction as the model gave it
                    /\ color_saved' =
                          IF n_label > 1
                          THEN Append(color_saved,
                                   SaveColorLabels(SoftValues, InputFilenames(smp),
                                                   ColorName(fname_pred)))
                          ELSE color_saved
                    /\ UNCHANGED <<pred_tmp_lst, z_tmp_lst, fname_tmp>>
    /\ IF smp_idx = BatchLen(i) - 1
       THEN i' = i + 1 /\ smp_idx' = 0
       ELSE i' = i /\ smp_idx' = smp_idx + 1
    /\ UNCHANGED <<context, testing_params, dataset_test, n_monteCarlo, i_monteCarlo,
                   n_label, uncertainty_runs, pc>>

\* testing.py:70: the loader is exhausted, the pass ends
EndPass ==
    /\ UNCHANGED not_test_vars
    /\ pc = "batch"
    /\ i = NumBatches
    /\ i_monteCarlo' = i_monteCarlo + 1
    /\ pc' = "pass"
    /\ UNCHANGED <<context, testing_params, dataset_test, n_monteCarlo, i, smp_idx,
                   pred_tmp_lst, z_tmp_lst, fname_tmp, saved, n_label, color_saved,
                   uncertainty_runs>>

\* testing.py:204-212
ComputeUncertainty ==
    /\ UNCHANGED not_test_vars
    /\ pc = "pass"
    /\ i_monteCarlo = n_monteCarlo
    /\ uncertainty_runs' = IF UncertaintyOn(context.uncertainty)
                           THEN uncertainty_runs + 1 ELSE uncertainty_runs
    /\ pc' = "done"
    /\ UNCHANGED <<context, testing_params, dataset_test, n_monteCarlo, i_monteCarlo, i,
                   smp_idx, pred_tmp_lst, z_tmp_lst, fname_tmp, saved, n_label, color_saved>>

TestNext ==
    \/ UncertaintySettings
    \/ StartPass
    \/ ReconstructSample
    \/ EndPass
    \/ ComputeUncertainty

InitTest == DropoutIdle /\ LoadIdle /\ IndexerIdle /\ AutoIdle /\ ConfigIdle /\ MidsliceIdle /\ TestInit

SpecTest == InitTest /\ [][TestNext]_vars

-----------------------------------------------------------------------------
\* Properties of test()

\* each filename forms one contiguous run of the sample stream
Contiguous(ds) ==
    \A a, b, c \in DOMAIN ds :
        (a < b /\ b < c /\ ds[a].fname = ds[c].fname) => ds[b].fname = ds[a].fname

\* positions of the samples of filename f
PositionsOf(f) == {k \in DOMAIN dataset_test : dataset_test[k].fname = f}

\* the calls of pred_to_nib made in pass p for reference file f
SavesOf(p, f) == {k \in DOMAIN saved : saved[k].pass = p /\ saved[k].fname_ref = f}

\* the (prediction, slice index) pairs handed to the call k of pred_to_nib
PairsOf(k) == {<<saved[k].data_lst[j], saved[k].z_lst[j]>> : j \in DOMAIN saved[k].data_lst}

\* a pass has processed its last sample
PassEnded == pc = "batch" /\ i = NumBatches

\* C1: for a stream in which each filename forms one contiguous run, the 2D
\* path saves in every pass exactly one volume per distinct filename, and the
\* data of that volume is exactly the slices of that filename (none missing,
\* none from another file), each paired with its own slice index.
C1_OneVolumePerFilename ==
    (pc = "done" /\ ~context.unet_3D /\ Contiguous(dataset_test)) =>
        \A p \in 0..(n_monteCarlo - 1) :
            \A f \in {dataset_test[k].fname : k \in DOMAIN dataset_test} :
                /\ Cardinality(SavesOf(p, f)) = 1
                /\ \A k \in SavesOf(p, f) :
                      /\ Len(saved[k].data_lst) = Cardinality(PositionsOf(f))
                      /\ Len(saved[k].z_lst) = Len(saved[k].data_lst)
                      /\ PairsOf(k) = {<<(<<p, q>>), dataset_test[q].slice_index>> :
                                            q \in PositionsOf(f)}

\* C2: when the last sample of the last batch of a pass has been processed in
\* the 2D path, the volume of the last filename has been saved in that pass
\* and holds that last sample's slice (stream length >= 1).
C2_FinalFlush ==
    (PassEnded /\ ~context.unet_3D /\ Len(dataset_test) >= 1) =>
        \E k \in DOMAIN saved :
            /\ saved[k].pass = i_monteCarlo
            /\ saved[k].fname_ref = dataset_test[Len(dataset_test)].fname
            /\ <<i_monteCarlo, Len(dataset_test)>> \in Range(saved[k].data_lst)

\* C3: within one pass no output filename is written more than once, in the
\* 2D path and in the 3D path, however many samples share a source filename.
C3_SavedOncePerSubject ==
    Contiguous(dataset_test) =>
        \A a, b \in DOMAIN saved :
            (a # b /\ saved[a].pass = saved[b].pass) => saved[a].fname_out # saved[b].fname_out

\* the un-suffixed output name of reference file f
PlainPred(f) == PathJoin(path_3Dpred, SplitFirst(SplitLast(f, "/"), target_suffix))
                    \o <<"_pred", ".nii.gz">>

\* name n carries the suffix of pass p
CarriesPassSuffix(n, f, p) ==
    n = SplitFirst(PlainPred(f), ".nii.gz") \o <<"_">> \o Zfill2(p) \o <<".nii.gz">>

\* C4: when Monte-Carlo uncertainty is configured (n_it >= 1 and epistemic or
\* aleatoric), there is one pass per iteration and every volume saved in pass
\* p is written under a name that carries the suffix of pass p, differs from
\* the un-suffixed name and from the name of the same volume in other passes.
C4_PassSuffix ==
    UncertaintyOn(testing_params.uncertainty) =>
        /\ pc # "start" => n_monteCarlo = testing_params.uncertainty.n_it
        /\ \A k \in DOMAIN saved :
              /\ CarriesPassSuffix(saved[k].fname_out, saved[k].fname_ref, saved[k].pass)
              /\ saved[k].fname_out # PlainPred(saved[k].fname_ref)
              /\ \A m \in DOMAIN saved :
                    (saved[m].fname_ref = saved[k].fname_ref /\ saved[m].pass # saved[k].pass)
                        => saved[m].fname_out # saved[k].fname_out

\* the shape of the image stored in file f
ImageShape(f) == <<"shape", f>>

\* the shape of the volume pred_to_nib writes for a call: the stacked slices
\* are brought into the space of the reference image
NibShape(call) == ImageShape(call.fname_ref)

Handles2DSample ==
    /\ pc = "batch"
    /\ i < NumBatches
    /\ ~context.unet_3D
    /\ <<i, smp_idx>>' # <<i, smp_idx>>

\* the sample the next step handles, and its prediction in this pass
Incoming == dataset_test[SamplePos(i, smp_idx)]

IncomingPred == <<i_monteCarlo, SamplePos(i, smp_idx)>>

\* the sample at hand is the last one of the last batch
IsLastSample == i = NumBatches - 1 /\ smp_idx = BatchLen(i) - 1

\* the step saves the buffer as one volume named after the old key, empties
\* the buffer, takes the incoming filename as key and appends the sample
FlushThenAppend ==
    /\ saved' = Append(saved,
           [data_lst |-> pred_tmp_lst, z_lst |-> z_tmp_lst, fname_ref |-> fname_tmp,
            fname_out |-> FnamePred(fname_tmp, n_monteCarlo, i_monteCarlo),
            kernel_dim |-> "2d", bin_thr |-> BinThr(context),
            pass |-> i_monteCarlo])
    /\ pred_tmp_lst' = <<IncomingPred>>
    /\ z_tmp_lst' = <<Incoming.slice_index>>
    /\ fname_tmp' = Incoming.fname

\* the step saves nothing and appends the sample
AppendOnly ==
    /\ saved' = saved
    /\ pred_tmp_lst' = Append(pred_tmp_lst, IncomingPred)
    /\ z_tmp_lst' = Append(z_tmp_lst, Incoming.slice_index)
    /\ fname_tmp' = Incoming.fname

C21_BufferInvariant ==
    /\ Len(pred_tmp_lst) = Len(z_tmp_lst)
    /\ \A k \in DOMAIN pred_tmp_lst :
          /\ z_tmp_lst[k] = dataset_test[pred_tmp_lst[k][2]].slice_index
          /\ dataset_test[pred_tmp_lst[k][2]].fname = fname_tmp
    /\ \A k \in DOMAIN saved :
          /\ saved[k].data_lst # <<>>
          /\ saved[k].fname_ref # <<>>

\* a 2D run has saved volumes and holds two slices of one file in the buffer,
\* with different slice indices
C21_Witness ==
    /\ pc = "batch"
    /\ ~context.unet_3D
    /\ saved # <<>>
    /\ Len(pred_tmp_lst) = 2
    /\ z_tmp_lst[1] # z_tmp_lst[2]

\* the buffer holds a slice of a file whose volume was already saved in this
\* pass, with a slice of another file between the saved slices and this one
Reappeared ==
    \E k \in DOMAIN saved, j \in DOMAIN pred_tmp_lst, q \in DOMAIN dataset_test :
        /\ saved[k].pass = i_monteCarlo
        /\ saved[k].fname_ref = fname_tmp
        /\ \A m \in DOMAIN saved[k].data_lst : saved[k].data_lst[m][2] < q
        /\ q < pred_tmp_lst[j][2]
        /\ dataset_test[q].fname # fname_tmp

\* C22: a source filename that reappears in the sample stream after its
\* volume has been flushed raises an error: its slice is never appended to
\* the buffer, so no second volume is assembled for that filename.
C22_ReappearanceRaises ==
    ~context.unet_3D => ~Reappeared

\* the calls of save_color_labels that followed the call k of pred_to_nib
ColorsOf(k) == {c \in DOMAIN color_saved : color_saved[c].volume = k}

\* C23: for every saved volume with more than one label channel test() saves
\* one merged colour-label volume ('_color.nii.gz') built from the raw,
\* un-binarized channel stack, on the 2D path and on the 3D path, whether or
\* not binarize_prediction is set; for a single-label volume no colour file
\* is written.
C23_ColorFromRawStack ==
    \A k \in DOMAIN saved :
        IF n_label > 1
        THEN /\ Cardinality(ColorsOf(k)) = 1
             /\ \A c \in ColorsOf(k) :
                   /\ color_saved[c].fname_out =
                         SplitFirst(saved[k].fname_out, ".nii.gz") \o <<"_color", ".nii.gz">>
                   /\ color_saved[c].gt_data = SoftValues
        ELSE ColorsOf(k) = {}

\* C24: run_uncertainty is started exactly once, after the last Monte-Carlo
\* pass has ended, if and only if n_it > 0 and epistemic or aleatoric
\* uncertainty is enabled; it is never started when uncertainty is disabled
\* and never before the passes are over.
C24_UncertaintyOnceAfterLastPass ==
    LET u == context.uncertainty
        enabled == u.n_it > 0 /\ (u.epistemic \/ u.aleatoric)
    IN  /\ uncertainty_runs = (IF pc = "done" /\ enabled THEN 1 ELSE 0)
        /\ uncertainty_runs > 0 =>
              /\ n_monteCarlo = u.n_it
              /\ i_monteCarlo = n_monteCarlo
              /\ \A k \in DOMAIN saved : saved[k].pass < n_monteCarlo

\* run_uncertainty has run once, after two passes that saved volumes
C24_Witness ==
    /\ pc = "done"
    /\ uncertainty_runs = 1
    /\ n_monteCarlo = 2
    /\ \E a, b \in DOMAIN saved : saved[a].pass = 0 /\ saved[b].pass = 1

\* C26: the reconstruction buffer is isolated between Monte-Carlo passes:
\* pred_tmp_lst, z_tmp_lst and fname_tmp are empty when a pass starts, the
\* buffer only ever holds predictions of the current pass, and every slice of
\* a saved volume was predicted in the pass the volume was saved in.
C26_PassIsolation ==
    /\ (pc = "batch" /\ i = 0 /\ smp_idx = 0) =>
          (pred_tmp_lst = <<>> /\ z_tmp_lst = <<>> /\ fname_tmp = <<>>)
    /\ pc = "batch" => \A k \in DOMAIN pred_tmp_lst : pred_tmp_lst[k][1] = i_monteCarlo
    /\ \A k \in DOMAIN saved :
          \A j \in DOMAIN saved[k].data_lst : saved[k].data_lst[j][1] = saved[k].pass

\* the second pass of a 2D run has saved a volume, after the first pass left
\* a slice in the buffer
C26_Witness ==
    /\ pc = "batch"
    /\ ~context.unet_3D
    /\ i_monteCarlo = 1
    /\ Len(dataset_test) >= 2
    /\ \E a, b \in DOMAIN saved : saved[a].pass = 0 /\ saved[b].pass = 1

-----------------------------------------------------------------------------
\* dropout_input() of loader.py

\* the data of one channel: a constant zero, a constant non-zero and a
\* non-constant image
ChannelData == {<<0, 0>>, <<1, 1>>, <<0, 1>>}

\* len(torch.unique(input_data)) > 1
NonConstant(input_data) == Cardinality(Range(input_data)) > 1

\* torch.zeros_like(x)
ZerosLike(x) == [k \in DOMAIN x |-> 0]

\* seg_pair['input'].size(0)
NChannels(inp) == Cardinality(DOMAIN inp)

\* np.where(np.invert(n_unique_values))[0]
IdxEmpty(inp) == {c \in DOMAIN inp : ~NonConstant(inp[c])}


DropoutInit ==
    /\ \E C \in 1..MaxChannels : seg_pair \in [0..(C - 1) -> ChannelData]
    /\ seg_pair_in = seg_pair
    /\ random_n_dropped = 0
    /\ n_dropped = 0
    /\ idx_empty = {}
    /\ idx_dropped = <<>>
    /\ warnings = 0
    /\ dpc = "call"

\* the elements of a set of channel indices as a list, in ascending order
RECURSIVE AscendingList(_)
AscendingList(S) ==
    IF S = {} THEN <<>>
    ELSE LET m == CHOOSE x \in S : \A y \in S : x <= y
         IN  <<m>> \o AscendingList(S \ {m})

\* a variant of the channel test that lets a single channel through
IsMultichannel_Any(inp) == NChannels(inp) >= 1

\* loader.py:132: n_channels > 1
IsMultichannel(inp) == NChannels(inp) > 1

\* loader.py:130-144, 150-151, 155-156: up to the choice of the branch
DropoutBegin ==
    /\ UNCHANGED not_dropout_vars
    /\ dpc = "call"
    /\ IF IsMultichannel(seg_pair)
       THEN /\ idx_empty' = IdxEmpty(seg_pair)
            /\ \E n \in 0..(NChannels(seg_pair) - 1) :
                  /\ random_n_dropped' = n
                  /\ IF n > Cardinality(IdxEmpty(seg_pair))
                     THEN /\ n_dropped' = n - Cardinality(IdxEmpty(seg_pair))
                          /\ idx_dropped' = <<>>
                          /\ dpc' = "select"
                     ELSE /\ n_dropped' = n
                          /\ idx_dropped' = AscendingList(IdxEmpty(seg_pair))
                          /\ dpc' = "apply"
            /\ UNCHANGED warnings
       ELSE /\ warnings' = warnings + 1
            /\ dpc' = "done"
            /\ UNCHANGED <<random_n_dropped, n_dropped, idx_empty, idx_dropped>>
    /\ UNCHANGED <<seg_pair, seg_pair_in>>

\* a variant of the test of a draw that accepts every index
Accepted_Any(idx) == idx = idx

\* a variant of the test of a draw that accepts no index
Accepted_None(idx) == idx # idx

\* the draw idx is accepted by loader.py:148
Accepted(idx) == idx \notin idx_empty

\* loader.py:145-149: one iteration of the selection loop
DropoutDraw ==
    /\ UNCHANGED not_dropout_vars
    /\ dpc = "select"
    /\ Len(idx_dropped) # n_dropped
    /\ \E idx \in 0..(NChannels(seg_pair) - 1) :
          idx_dropped' = IF Accepted(idx) THEN Append(idx_dropped, idx) ELSE idx_dropped
    /\ UNCHANGED <<seg_pair, seg_pair_in, random_n_dropped, n_dropped, idx_empty, warnings, dpc>>

\* loader.py:153, 158: the channels of idx_dropped are set to zero
DropoutApply ==
    /\ UNCHANGED not_dropout_vars
    /\ \/ dpc = "apply"
       \/ (dpc = "select" /\ Len(idx_dropped) = n_dropped)
    /\ seg_pair' = [c \in DOMAIN seg_pair |->
                        IF c \in Range(idx_dropped) THEN ZerosLike(seg_pair[c]) ELSE seg_pair[c]]
    /\ dpc' = "done"
    /\ UNCHANGED <<seg_pair_in, random_n_dropped, n_dropped, idx_empty, idx_dropped, warnings>>

DropoutNext ==
    \/ DropoutBegin
    \/ DropoutDraw
    \/ DropoutApply


InitDropout == TestIdle /\ LoadIdle /\ IndexerIdle /\ AutoIdle /\ ConfigIdle /\ MidsliceIdle /\ DropoutInit

SpecDropout == InitDropout /\ [][DropoutNext]_vars

\* dropout_input() under fair random choice: random.randint gives every index
\* a chance at each iteration of the loop, so a draw that changes idx_dropped
\* happens as long as one is possible; the code after the loop runs
SpecDropoutFair ==
    /\ InitDropout
    /\ [][DropoutNext]_vars
    /\ WF_vars(DropoutBegin)
    /\ WF_vars(DropoutDraw)
    /\ WF_vars(DropoutApply)

\* the channels that are entirely zero
ZeroChannels(inp) == {c \in DOMAIN inp : inp[c] = ZerosLike(inp[c])}

\* C5: for a sample with C > 1 channels (one of them at least not zero) and
\* every outcome of the draws, after dropout_input at least one channel is
\* non-zero and the number of zero channels is within 0..C-1.
C5_KeepsOneChannel ==
    (dpc = "done" /\ NChannels(seg_pair_in) > 1
        /\ ZeroChannels(seg_pair_in) # DOMAIN seg_pair_in) =>
        /\ \E c \in DOMAIN seg_pair : seg_pair[c] # ZerosLike(seg_pair[c])
        /\ Cardinality(ZeroChannels(seg_pair)) \in 0..(NChannels(seg_pair) - 1)

\* C6: when the drawn count n exceeds the number E of already-empty channels
\* (the constant channels of the sample being its all-zero ones), exactly n
\* channels are zero afterwards, the already-empty ones among them, and never
\* all C of them.
C6_QuotaCountsEmpty ==
    (dpc = "done" /\ NChannels(seg_pair_in) > 1
        /\ IdxEmpty(seg_pair_in) = ZeroChannels(seg_pair_in)
        /\ random_n_dropped > Cardinality(IdxEmpty(seg_pair_in))) =>
        /\ Cardinality(ZeroChannels(seg_pair)) = random_n_dropped
        /\ IdxEmpty(seg_pair_in) \subseteq ZeroChannels(seg_pair)

\* C11: dropout_input on a sample with exactly one input channel returns the
\* input it was passed, unchanged, after logging one warning; no draw is made
\* and no channel is selected.  (seg_pair stands for seg_pair['input'], the
\* only entry of the sample dropout_input ever assigns.)
C11_SingleChannelNoOp ==
    (dpc = "done" /\ NChannels(seg_pair_in) = 1) =>
        /\ seg_pair = seg_pair_in
        /\ warnings = 1
        /\ idx_dropped = <<>>

\* a single-channel sample with non-zero data went through dropout_input
C11_Witness ==
    /\ dpc = "done"
    /\ NChannels(seg_pair_in) = 1
    /\ seg_pair_in[0] = <<1, 1>>
    /\ seg_pair = seg_pair_in
    /\ warnings = 1
        /\ ZeroChannels(seg_pair) # DOMAIN seg_pair

\* the non-constant channels of a sample
NonConstantChannels(inp) == {c \in DOMAIN inp : NonConstant(inp[c])}

\* the call went through the selection loop
WentThroughLoop == random_n_dropped > Cardinality(IdxEmpty(seg_pair_in))

\* C27: for an input of C > 1 channels of which at least one is non-constant,
\* at least one non-constant channel is left unmodified by the call, for
\* every outcome of the draws; and the channels chosen by the selection loop
\* are only ever non-constant channels.
C27_KeepsOneNonConstant ==
    (NChannels(seg_pair_in) > 1 /\ NonConstantChannels(seg_pair_in) # {}) =>
        /\ dpc = "done" =>
              \E c \in NonConstantChannels(seg_pair_in) : seg_pair[c] = seg_pair_in[c]
        /\ (dpc \in {"select", "done"} /\ WentThroughLoop) =>
              Range(idx_dropped) \subseteq NonConstantChannels(seg_pair_in)

\* a 4-channel sample with one constant channel: the count drawn was 3, the
\* loop chose two different non-constant channels and one is left as it was
C27_Witness ==
    /\ dpc = "done"
    /\ NChannels(seg_pair_in) = 4
    /\ Cardinality(IdxEmpty(seg_pair_in)) = 1
    /\ random_n_dropped = 3
    /\ Cardinality(Range(idx_dropped)) = 2
    /\ Cardinality({c \in NonConstantChannels(seg_pair_in) : seg_pair[c] = seg_pair_in[c]}) = 1

\* what holds whenever the selection loop is entered or running: the quota
\* is between 1 and the number of non-constant channels minus 1, at least
\* two non-constant indices can be drawn, and idx_dropped is not longer than
\* the quota
LoopQuota ==
    dpc = "select" =>
        /\ n_dropped >= 1
        /\ n_dropped <= Cardinality(NonConstantChannels(seg_pair)) - 1
        /\ Cardinality(NonConstantChannels(seg_pair)) >= 2
        /\ Len(idx_dropped) <= n_dropped

\* an accepted draw lengthens idx_dropped by exactly one
DrawLengthensByOne ==
    (dpc = "select" /\ idx_dropped' # idx_dropped) =>
        /\ Len(idx_dropped') = Len(idx_dropped) + 1
        /\ SubSeq(idx_dropped', 1, Len(idx_dropped)) = idx_dropped

\* C28: the channel-selection loop terminates under fair random choice:
\* whenever it is entered the quota is at least 1 and at most the number of
\* non-constant channels minus 1, at least two non-constant indices can be
\* drawn, each accepted draw lengthens idx_dropped by exactly one, and the
\* call reaches its end.
C28_SelectionTerminates ==
    /\ []LoopQuota
    /\ [][DrawLengthensByOne]_vars
    /\ (dpc = "select" ~> dpc = "done")

\* the loop ran for a quota of two and the call has ended
C28_Witness ==
    /\ dpc = "done"
    /\ WentThroughLoop
    /\ n_dropped = 2
    /\ Len(idx_dropped) = 2

-----------------------------------------------------------------------------
\* load_dataset() of loader.py

\* the model names of the repository's configurations
KnownModelNames == {"Modified3DUNet", "HeMISUnet", "Unet", "resnet18"}

\* the names a configuration may carry, a misspelt one among them
ModelNames == KnownModelNames \cup {"NoSuchModel"}

\* the values of test_segment_volume.py for length_3D and stride_3D
LENGTH_3D == <<96, 96, 16>>

\* model_params without and with the key is_2d
ModelParams ==
    {[name |-> n, length_3D |-> LENGTH_3D, stride_3D |-> LENGTH_3D] : n \in ModelNames}
    \cup {[name |-> n, length_3D |-> LENGTH_3D, stride_3D |-> LENGTH_3D, is_2d |-> b] :
              n \in ModelNames, b \in BOOLEAN}

TransformNames == {"Resample", "ROICrop"}

\* roi_params["slice_filter_roi"] as configured: None or a threshold
SliceFilterRois == {None, <<10>>}

LoadInit ==
    /\ model_params \in ModelParams
    /\ transforms_params \in SUBSET TransformNames
    /\ \E r \in SliceFilterRois : roi_params = [suffix |-> None, slice_filter_roi |-> r]
    /\ roi_params_in = roi_params
    /\ constructed = <<>>
    /\ dataset = None
    /\ lpc = "call"

\* a variant of EnforceRoi that leaves roi_params as passed
EnforceRoi_Untouched(tp, rp) == rp

\* loader.py:53-55: no slice filtering on ROI data without ROICrop
EnforceRoi(tp, rp) ==
    IF "ROICrop" \notin tp THEN [rp EXCEPT !.slice_filter_roi = None] ELSE rp

\* a variant of Is3DModel that looks at the model name only
Is3DModel_NameOnly(mp) == mp.name = "Modified3DUNet"

\* the condition of loader.py:57
Is3DModel(mp) ==
    mp.name = "Modified3DUNet" \/ ("is_2d" \in DOMAIN mp /\ ~mp.is_2d)

\* the condition of loader.py:72
IsHeMIS(mp) == mp.name = "HeMISUnet"

\* imed_loader_utils.SliceFilter(**slice_filter_params, device, cuda_available)
SliceFilter == [class |-> "SliceFilter"]

\* imed_utils.get_task(name), left uninterpreted
GetTask(name) == <<"task", name>>

\* BidsDataset(...): the keyword arguments that matter here; filenames are
\* loaded by load_filenames()
BidsDataset(mp, rp, slice_filter_fn, task) ==
    [class |-> "BidsDataset", model_params |-> mp, roi_params |-> rp,
     slice_filter_fn |-> slice_filter_fn, task |-> task, filenames_loaded |-> FALSE]

\* dataset.load_filenames()
LoadFilenames(d) == [d EXCEPT !.filenames_loaded = TRUE]

\* a variant of Bids3DDataset that hands stride_3D over as the length and
\* length_3D as the stride
Bids3DDataset_Swapped(mp, rp) ==
    [class |-> "Bids3DDataset", model_params |-> mp, roi_params |-> rp,
     filename_pairs |-> [class |-> "BidsDataset", model_params |-> mp, roi_params |-> rp,
                         slice_filter_fn |-> None, task |-> None, filenames_loaded |-> FALSE],
     length |-> mp.stride_3D, stride |-> mp.length_3D]

\* Bids3DDataset.__init__ (loader.py:182-201): a BidsDataset for the filename
\* pairs, then the sub-volume dataset with length and stride
Bids3DDataset(mp, rp) ==
    [class |-> "Bids3DDataset", model_params |-> mp, roi_params |-> rp,
     filename_pairs |-> BidsDataset(mp, rp, None, None),
     length |-> mp.length_3D, stride |-> mp.stride_3D]

\* imed_adaptative.HDF5Dataset(...)
HDF5Dataset(mp, rp, slice_filter_fn) ==
    [class |-> "HDF5Dataset", model_params |-> mp, roi_params |-> rp,
     slice_filter_fn |-> slice_filter_fn]

\* loader.py:57-107: the dataset constructed for the parameters
SelectDataset(mp, rp) ==
    IF Is3DModel(mp) THEN Bids3DDataset(mp, rp)
    ELSE IF IsHeMIS(mp) THEN HDF5Dataset(mp, rp, SliceFilter)
    ELSE LoadFilenames(BidsDataset(mp, rp, SliceFilter, GetTask(mp.name)))

\* loader.py:50-117 (the log lines 109-115 change no state)
LoadDataset ==
    /\ UNCHANGED not_load_vars
    /\ lpc = "call"
    /\ roi_params' = EnforceRoi(transforms_params, roi_params)
    /\ dataset' = SelectDataset(model_params, roi_params')
    /\ constructed' = Append(constructed, dataset')
    /\ lpc' = "done"
    /\ UNCHANGED <<model_params, transforms_params, roi_params_in>>

LoadNext ==
    \/ LoadDataset

InitLoad == TestIdle /\ DropoutIdle /\ IndexerIdle /\ AutoIdle /\ ConfigIdle /\ MidsliceIdle /\ LoadInit

SpecLoad == InitLoad /\ [][LoadNext]_vars

\* the model is volumetric: named Modified3DUNet, or is_2d present and false
Volumetric ==
    \/ model_params.name = "Modified3DUNet"
    \/ ("is_2d" \in DOMAIN model_params /\ model_params.is_2d = FALSE)

\* C7: load_dataset constructs exactly one dataset per call: the 3D sub-volume
\* dataset (built from a filename-pair BidsDataset, length_3D and stride_3D)
\* when the model is volumetric, the HDF5Dataset when the model is HeMISUnet,
\* and otherwise the BidsDataset filtered by a SliceFilter with its filenames
\* loaded.
C7_OneDatasetByModel ==
    lpc = "done" =>
        /\ Len(constructed) = 1
        /\ constructed[1] = dataset
        /\ dataset.class \in {"Bids3DDataset", "HDF5Dataset", "BidsDataset"}
        /\ dataset.class = "Bids3DDataset" <=> Volumetric
        /\ dataset.class = "HDF5Dataset" <=> (~Volumetric /\ model_params.name = "HeMISUnet")
        /\ dataset.class = "Bids3DDataset" =>
              /\ dataset.filename_pairs.class = "BidsDataset"
              /\ dataset.length = model_params.length_3D
              /\ dataset.stride = model_params.stride_3D
        /\ dataset.class = "BidsDataset" =>
              /\ dataset.slice_filter_fn = SliceFilter
              /\ dataset.filenames_loaded

\* a volumetric model that is not named Modified3DUNet got the 3D dataset
C7_Witness ==
    /\ lpc = "done"
    /\ model_params.name = "HeMISUnet"
    /\ dataset.class = "Bids3DDataset"

\* C8: without ROICrop among the transforms the dataset is built with
\* slice_filter_roi None whatever the caller passed; with ROICrop the
\* caller's value is passed on unchanged.
C8_RoiFilterNeedsCrop ==
    lpc = "done" =>
        /\ dataset.roi_params = roi_params
        /\ ("ROICrop" \notin transforms_params) => dataset.roi_params.slice_filter_roi = None
        /\ ("ROICrop" \in transforms_params) =>
              dataset.roi_params.slice_filter_roi = roi_params_in.slice_filter_roi

\* a caller's ROI filter was dropped because ROICrop is not requested
C8_Witness ==
    /\ lpc = "done"
    /\ "ROICrop" \notin transforms_params
    /\ roi_params_in.slice_filter_roi # None
    /\ dataset.roi_params.slice_filter_roi = None

\* C12: load_dataset called with a model name that is not a known one ends
\* without having constructed or returned any dataset (it fails with a
\* configuration error instead of falling through to one of the three
\* dataset implementations).
C12_UnknownModelRejected ==
    (lpc = "done" /\ model_params.name \notin KnownModelNames) =>
        /\ constructed = <<>>
        /\ dataset = None

-----------------------------------------------------------------------------
\* The sub-volume indexer: Bids3DDataset.__init__ hands length_3D and
\* stride_3D to the sub-volume dataset, which lists the origins of the
\* sub-volumes of every volume.

Axes == 1..3

IndexerInit ==
    /\ \E len3 \in [Axes -> 1..MaxPatch], str3 \in [Axes -> 1..MaxStride] :
          model_params = [name |-> "Modified3DUNet", length_3D |-> len3, stride_3D |-> str3]
    /\ vol_shape \in [Axes -> 1..MaxDim]
    /\ transforms_params = {}
    /\ roi_params = [suffix |-> None, slice_filter_roi |-> None]
    /\ roi_params_in = roi_params
    /\ constructed = <<>>
    /\ dataset = None
    /\ lpc = "idle"
    /\ axis_origins = <<>>
    /\ indices = <<>>
    /\ ipc = "init"

\* loader.py:186-201: the filename-pair dataset, then length and stride
ConstructBids3D ==
    /\ UNCHANGED not_indexer_vars
    /\ ipc = "init"
    /\ dataset' = Bids3DDataset(model_params, roi_params)
    /\ constructed' = Append(constructed, dataset')
    /\ ipc' = "indices"
    /\ UNCHANGED <<model_params, transforms_params, roi_params, roi_params_in, lpc,
                   vol_shape, axis_origins, indices>>

\* the origins along one axis from origin o on: advance by the stride, the
\* step that would pass the end of the volume is clamped to dim - patch_len
RECURSIVE OriginsFrom(_, _, _, _)
OriginsFrom(o, dim, patch_len, strd) ==
    IF o + patch_len >= dim THEN <<o>>
    ELSE <<o>> \o OriginsFrom(IF o + strd + patch_len > dim THEN dim - patch_len ELSE o + strd,
                              dim, patch_len, strd)

\* the origins along one axis: a single origin 0 when the patch is not
\* shorter than the volume
AxisOrigins(dim, patch_len, strd) ==
    IF patch_len >= dim THEN <<0>> ELSE OriginsFrom(0, dim, patch_len, strd)

\* the 3D origins in row-major order, the last axis varying fastest
RowMajor(ox, oy, oz) ==
    [k \in 1..(Len(ox) * Len(oy) * Len(oz)) |->
        <<ox[((k - 1) \div (Len(oy) * Len(oz))) + 1],
          oy[(((k - 1) \div Len(oz)) % Len(oy)) + 1],
          oz[((k - 1) % Len(oz)) + 1]>>]

\* the indexing of one volume by the sub-volume dataset
PrepareIndices ==
    /\ UNCHANGED not_indexer_vars
    /\ ipc = "indices"
    /\ axis_origins' = [a \in Axes |-> AxisOrigins(vol_shape[a], dataset.length[a], dataset.stride[a])]
    /\ indices' = RowMajor(axis_origins'[1], axis_origins'[2], axis_origins'[3])
    /\ ipc' = "done"
    /\ UNCHANGED <<model_params, transforms_params, roi_params, roi_params_in, constructed,
                   dataset, lpc, vol_shape>>

IndexerNext ==
    \/ ConstructBids3D
    \/ PrepareIndices

InitIndexer == TestIdle /\ DropoutIdle /\ AutoIdle /\ ConfigIdle /\ MidsliceIdle /\ IndexerInit

SpecIndexer == InitIndexer /\ [][IndexerNext]_vars

\* the origins along axis a of the 3D origins
OriginsAlong(a) == {indices[k][a] : k \in DOMAIN indices}

\* along axis a the origins are within bounds and the patches cover the axis
InBoundsAndCovered(a) ==
    LET dim == vol_shape[a]
        patch_len == model_params.length_3D[a]
    IN  /\ \A o \in OriginsAlong(a) : 0 <= o /\ o <= dim - patch_len
        /\ \A x \in 0..(dim - 1) : \E o \in OriginsAlong(a) : o <= x /\ x < o + patch_len

ClampedSequence(dim, patch_len, strd) ==
    LET last == CHOOSE k \in 0..dim : strd * k >= dim - patch_len
                                       /\ \A j \in 0..(k - 1) : strd * j < dim - patch_len
    IN  [k \in 1..(last + 1) |-> Min(strd * (k - 1), dim - patch_len)]

\* C10: along each axis the origins are the strictly increasing sequence
\* min(stride*k, dim - patch_len), k = 0, 1, ..., ending at the first clamped
\* origin; when patch_len >= dim the only origin is 0; the 3D origins are in
\* row-major order, the last axis varying fastest.
C10_OriginsSequence ==
    ipc = "done" =>
        /\ AxisOrigins(40, 16, 16) = <<0, 16, 24>>
        /\ \A a \in Axes :
              LET dim == vol_shape[a]
                  patch_len == model_params.length_3D[a]
                  strd == model_params.stride_3D[a]
                  o == axis_origins[a]
              IN  /\ patch_len >= dim => o = <<0>>
                  /\ patch_len < dim => o = ClampedSequence(dim, patch_len, strd)
                  /\ \A k \in 1..(Len(o) - 1) : o[k] < o[k + 1]
        /\ Len(indices) = Len(axis_origins[1]) * Len(axis_origins[2]) * Len(axis_origins[3])
        /\ \A x \in DOMAIN axis_origins[1], y \in DOMAIN axis_origins[2],
              z \in DOMAIN axis_origins[3] :
              indices[((x - 1) * Len(axis_origins[2]) + (y - 1)) * Len(axis_origins[3]) + z]
                  = <<axis_origins[1][x], axis_origins[2][y], axis_origins[3][z]>>

\* a volume with a clamped axis and more than one origin on two axes
C10_Witness ==
    /\ ipc = "done"
    /\ Len(axis_origins[2]) > 1
    /\ Len(axis_origins[3]) > 1
    /\ \E a \in Axes :
          /\ Len(axis_origins[a]) = 3
          /\ axis_origins[a][3] < model_params.stride_3D[a] * 2

-----------------------------------------------------------------------------
\* automate_training() of automate_training.py: the pool and the iterations

MaxGpus == 11
MaxConfigs == 2
MaxIterations == 2

\* the path split_dataset writes the split to (automate_training.py:144)
common_split == <<".", "/", "common_split_datasets.joblib">>

\* the configurations of config_list, told apart by their log directory
PoolConfigs(m) == [k \in 1..m |-> [log_directory |-> <<"log", k>>]]

AutoInit ==
    /\ fixed_split \in BOOLEAN
    /\ run_test \in BOOLEAN
    /\ n_iterations \in 1..MaxIterations
    /\ \E n \in 1..MaxGpus : gpu_ids = [k \in 1..n |-> k - 1]
    /\ split_path \in {None, <<"my_split.joblib">>}
    /\ fname_split = None
    /\ \E m \in 1..MaxConfigs : pool_config_list = PoolConfigs(m)
    /\ iteration = 0
    /\ validation_scores = None
    /\ queue = <<>>
    /\ running = <<>>
    /\ train_count = [c \in DOMAIN pool_config_list |-> 0]
    /\ test_count = [c \in DOMAIN pool_config_list |-> 0]
    /\ apc = "split"

\* automate_training.py:486-488 and split_dataset (129-147)
SplitDataset ==
    /\ UNCHANGED not_auto_vars
    /\ apc = "split"
    /\ fname_split' = IF fixed_split /\ split_path = None THEN common_split ELSE fname_split
    /\ apc' = "pool"
    /\ UNCHANGED <<fixed_split, run_test, n_iterations, gpu_ids, split_path, pool_config_list,
                   iteration, validation_scores, queue, running, train_count, test_count>>

\* automate_training.py:508: ctx.Pool(processes=len(gpu_ids)); worker w is the
\* process named SpawnPoolWorker-w
CreatePool ==
    /\ UNCHANGED not_auto_vars
    /\ apc = "pool"
    /\ running' = [w \in 1..Len(gpu_ids) |-> None]
    /\ apc' = "loop"
    /\ UNCHANGED <<fixed_split, run_test, n_iterations, gpu_ids, split_path, fname_split,
                   pool_config_list, iteration, validation_scores, queue, train_count,
                   test_count>>

\* the tasks of one pool.map over config_list
AllTasks == [k \in DOMAIN pool_config_list |-> k]

\* a variant of the iteration head that trains whatever fixed_split is
TrainsThisIteration_Always == TRUE

\* automate_training.py:510-522: pool.map(train_worker, ...) is in the body of
\* "if not fixed_split"
TrainsThisIteration == ~fixed_split

\* automate_training.py:509-524: the head of one iteration, up to the call of
\* pool.map for training; without it, validation_scores is read at line 524
\* and the run ends there when it was never assigned
IterationHead ==
    /\ UNCHANGED not_auto_vars
    /\ apc = "loop"
    /\ iteration < n_iterations
    /\ IF TrainsThisIteration
       THEN /\ queue' = AllTasks
            /\ apc' = "train"
            /\ UNCHANGED iteration
       ELSE IF validation_scores = None
       THEN /\ apc' = "error"
            /\ UNCHANGED <<queue, iteration>>
       ELSE IF run_test
       THEN /\ queue' = AllTasks
            /\ apc' = "test"
            /\ UNCHANGED iteration
       ELSE /\ iteration' = iteration + 1
            /\ UNCHANGED <<queue, apc>>
    /\ UNCHANGED <<fixed_split, run_test, n_iterations, gpu_ids, split_path, fname_split,
                   pool_config_list, validation_scores, running, train_count, test_count>>

\* a variant of WorkerId that reads the whole number of the process name
WorkerId_WholeNumber(w) == w - 1

\* automate_training.py:82 and 111: ID = int(current.name[-1]) - 1, the last
\* character of "SpawnPoolWorker-w" being the last decimal digit of w
WorkerId(w) == (w % 10) - 1

\* lst[k] of Python, with a negative k counting from the end
PyIndex(lst, k) == IF k >= 0 THEN lst[k + 1] ELSE lst[Len(lst) + k + 1]

\* automate_training.py:85 and 114: config["gpu_ids"] = [config["gpu_ids"][ID]]
WorkerGpuIds(w) == <<PyIndex(gpu_ids, WorkerId(w))>>

\* train_worker (71-103) or test_worker (106-126) starts in worker w on the
\* next task of the map
TakeTask(w) ==
    /\ UNCHANGED not_auto_vars
    /\ apc \in {"train", "test"}
    /\ queue # <<>>
    /\ running[w] = None
    /\ running' = [running EXCEPT ![w] = <<[config |-> Head(queue), gpu_ids |-> WorkerGpuIds(w)]>>]
    /\ queue' = Tail(queue)
    /\ IF apc = "train"
       THEN /\ train_count' = [train_count EXCEPT ![Head(queue)] = @ + 1]
            /\ UNCHANGED test_count
       ELSE /\ test_count' = [test_count EXCEPT ![Head(queue)] = @ + 1]
            /\ UNCHANGED train_count
    /\ UNCHANGED <<fixed_split, run_test, n_iterations, gpu_ids, split_path, fname_split,
                   pool_config_list, iteration, validation_scores, apc>>

\* the worker returns from train_worker or test_worker
FinishTask(w) ==
    /\ UNCHANGED not_auto_vars
    /\ apc \in {"train", "test"}
    /\ running[w] # None
    /\ running' = [running EXCEPT ![w] = None]
    /\ UNCHANGED <<fixed_split, run_test, n_iterations, gpu_ids, split_path, fname_split,
                   pool_config_list, iteration, validation_scores, queue, train_count,
                   test_count, apc>>

\* pool.map returns: automate_training.py:522-545 after training, 545-592
\* after testing
MapReturns ==
    /\ UNCHANGED not_auto_vars
    /\ apc \in {"train", "test"}
    /\ queue = <<>>
    /\ \A w \in DOMAIN running : running[w] = None
    /\ IF apc = "train"
       THEN /\ validation_scores' = <<iteration>>
            /\ IF run_test
               THEN /\ queue' = AllTasks
                    /\ apc' = "test"
                    /\ UNCHANGED iteration
               ELSE /\ iteration' = iteration + 1
                    /\ apc' = "loop"
                    /\ UNCHANGED queue
       ELSE /\ iteration' = iteration + 1
            /\ apc' = "loop"
            /\ UNCHANGED <<queue, validation_scores>>
    /\ UNCHANGED <<fixed_split, run_test, n_iterations, gpu_ids, split_path, fname_split,
                   pool_config_list, running, train_count, test_count>>

\* automate_training.py:509: the loop over the iterations ends
EndIterations ==
    /\ UNCHANGED not_auto_vars
    /\ apc = "loop"
    /\ iteration = n_iterations
    /\ apc' = "done"
    /\ UNCHANGED <<fixed_split, run_test, n_iterations, gpu_ids, split_path, fname_split,
                   pool_config_list, iteration, validation_scores, queue, running,
                   train_count, test_count>>

AutoNext ==
    \/ SplitDataset
    \/ CreatePool
    \/ IterationHead
    \/ \E w \in DOMAIN running : TakeTask(w)
    \/ \E w \in DOMAIN running : FinishTask(w)
    \/ MapReturns
    \/ EndIterations

InitAutomate == TestIdle /\ DropoutIdle /\ LoadIdle /\ IndexerIdle /\ ConfigIdle /\ MidsliceIdle /\ AutoInit

SpecAutomate == InitAutomate /\ [][AutoNext]_vars

\* the workers that run a task
Busy == {w \in DOMAIN running : running[w] # None}

\* C14: whatever the number of GPUs, every worker that runs a task uses
\* exactly one GPU of gpu_ids, and no two workers running at the same time
\* use the same GPU.
C14_OneGpuPerWorker ==
    /\ \A w \in Busy :
          /\ Len(running[w][1].gpu_ids) = 1
          /\ running[w][1].gpu_ids[1] \in Range(gpu_ids)
    /\ \A w1, w2 \in Busy :
          w1 # w2 => running[w1][1].gpu_ids # running[w2][1].gpu_ids

\* C15: with fixed_split, automate_training ends normally having called
\* train_worker once per config of config_list in each of the n_iterations
\* iterations, all on one split file.
C15_FixedSplitRunsAll ==
    (fixed_split /\ apc \in {"done", "error"}) =>
        /\ apc = "done"
        /\ \A c \in DOMAIN pool_config_list : train_count[c] = n_iterations
        /\ (split_path # None \/ fname_split # None)

-----------------------------------------------------------------------------
\* get_param_list() and make_config_list() of automate_training.py
\*
\* A dictionary is modelled by the function that maps every key path to the
\* value found there: {"a": {"b": 1}, "c": 2} is (<<"a","b">> :> 1 @@ <<"c">> :> 2).
\* A value that is no dictionary is the function on the empty path alone.
\* A configuration is its dictionary (log_directory left out) together with
\* its log_directory, the initial one followed by the names appended to it.

\* a value that is no dictionary
Atom(v) == (<<>> :> v)

\* {k: m}
Wrap(k, m) == [p \in {<<k>> \o q : q \in DOMAIN m} |-> m[Tail(p)]]

\* the path p goes through the path P
StartsWith(p, P) == Len(p) >= Len(P) /\ SubSeq(p, 1, Len(P)) = P

\* m[P[1]]...[P[n]], the empty dictionary when there is nothing at P
SubAt(m, P) ==
    [q \in {SubSeq(p, Len(P) + 1, Len(p)) : p \in {x \in DOMAIN m : StartsWith(x, P)}} |->
        m[P \o q]]

\* m[P[1]]...[P[n]] = v
PutAt(m, P, v) ==
    [p \in {x \in DOMAIN m : ~StartsWith(x, P)} \cup {P \o q : q \in DOMAIN v} |->
        IF StartsWith(p, P) THEN v[SubSeq(p, Len(P) + 1, Len(p))] ELSE m[p]]

\* the keys of a dictionary
Keys(m) == {p[1] : p \in DOMAIN m}

\* isinstance(m[k], collections.abc.Mapping)
IsMapping(m, k) == <<k>> \notin DOMAIN m

\* the hyperparameter file: a dictionary is the list of its items in order,
\* each value a list of options or a dictionary
List(elems) == [kind |-> "list", body |-> elems]

Dict(items) == [kind |-> "dict", body |-> items]

Item(present, key, node) == IF present THEN << <<key, node>> >> ELSE <<>>

SubDict(key, items) == IF items = <<>> THEN <<>> ELSE << <<key, Dict(items)>> >>

\* the two loss options of the documentation (automate_training.py:302-320)
DiceLoss == (<<"name">> :> "DiceLoss")

FocalLoss == (<<"name">> :> "FocalLoss" @@ <<"params", "gamma">> :> "0.2")

\* the hyperparameters a file may vary: those of the documentation, one
\* nested two levels deep, one at the top level and one whose key also
\* occurs in another category
HyperPool == {"batch_size", "loss", "depth", "initial_lr", "debugging", "film_depth"}

\* the hyperparameter file that varies the hyperparameters of S
HyperFile(S) ==
    LET scheduler == Item("initial_lr" \in S, "initial_lr",
                          List(<<Atom("0.01"), Atom("0.1")>>))
        training  == Item("batch_size" \in S, "batch_size", List(<<Atom("2"), Atom("64")>>))
                     \o Item("loss" \in S, "loss", List(<<DiceLoss, FocalLoss>>))
                     \o SubDict("scheduler", scheduler)
        model     == Item("depth" \in S, "depth", List(<<Atom("2"), Atom("3"), Atom("4")>>))
        film      == Item("film_depth" \in S, "depth", List(<<Atom("5"), Atom("6")>>))
    IN  SubDict("training_parameters", training)
        \o SubDict("default_model", model)
        \o SubDict("FiLMedUnet", film)
        \o Item("debugging" \in S, "debugging", List(<<Atom("true"), Atom("false")>>))

\* the base configuration
BaseConfig ==
    [dict |-> (<<"training_parameters", "batch_size">> :> "18"
               @@ <<"training_parameters", "loss", "name">> :> "FocalLoss"
               @@ <<"training_parameters", "loss", "params", "gamma">> :> "0.5"
               @@ <<"training_parameters", "scheduler", "initial_lr">> :> "0.001"
               @@ <<"training_parameters", "training_time", "num_epochs">> :> "100"
               @@ <<"default_model", "name">> :> "Unet"
               @@ <<"default_model", "depth">> :> "3"
               @@ <<"FiLMedUnet", "applied">> :> "false"
               @@ <<"FiLMedUnet", "depth">> :> "1"
               @@ <<"debugging">> :> "no"),
     log_directory |-> <<"log">>]

ConfigInit ==
    /\ \E S \in (SUBSET HyperPool) \ {{}} : config_hyper = HyperFile(S)
    /\ initial_config = BaseConfig
    /\ all_combin \in BOOLEAN
    /\ multi_params \in BOOLEAN
    /\ param_list = <<>>
    /\ config_list = <<>>
    /\ mpc = "params"

\* HyperparameterOption (automate_training.py:219-231); the name is "-" +
\* base_key + "=" + str(base_option), the text of the option standing for
\* itself (none of the options holds a "/")
HyperparameterOption(base_key, option, base_option) ==
    [base_key |-> base_key, option |-> option, base_option |-> base_option,
     name |-> <<"-", base_key, "=", base_option>>]

\* a variant of OptionDict that nests the option under every superkey
RECURSIVE WrapAll(_, _)
WrapAll(superkeys, m) ==
    IF superkeys = <<>> THEN m
    ELSE Wrap(superkeys[1], WrapAll(Tail(superkeys), m))

OptionDict_Nested(key, element, superkeys) == WrapAll(superkeys, Wrap(key, element))

\* automate_training.py:238-243: the option dictionary built for one element.
\* Every turn of the loop over reversed(superkeys) wraps dict_prev, which the
\* loop never updates: what is left is the wrapping in the first superkey.
OptionDict(key, element, superkeys) ==
    LET dict_prev == Wrap(key, element)
    IN  IF Len(superkeys) = 0 THEN dict_prev ELSE Wrap(superkeys[1], dict_prev)

\* get_param_list (automate_training.py:234-249), my_dict given by its items
RECURSIVE GetParamList(_, _, _)
GetParamList(my_dict, plist, superkeys) ==
    IF my_dict = <<>> THEN plist
    ELSE LET key   == my_dict[1][1]
             value == my_dict[1][2]
             after == IF value.kind = "list"
                      THEN plist \o [e \in DOMAIN value.body |->
                                HyperparameterOption(key,
                                    OptionDict(key, value.body[e], superkeys),
                                    value.body[e])]
                      ELSE GetParamList(value.body, plist, superkeys \o <<key>>)
         IN  GetParamList(Tail(my_dict), after, superkeys)

\* update_dict (automate_training.py:252-260), the keys of u taken one by one
RECURSIVE UpdateDict(_, _, _)
RECURSIVE UpdateKeys(_, _, _, _)
UpdateKeys(d, u, base_key, ks) ==
    IF ks = {} THEN d
    ELSE LET k  == CHOOSE x \in ks : TRUE
             v  == SubAt(u, <<k>>)
             d1 == IF k = base_key THEN PutAt(d, <<k>>, v)
                   ELSE IF IsMapping(u, k)
                   THEN PutAt(d, <<k>>, UpdateDict(SubAt(d, <<k>>), v, base_key))
                   ELSE PutAt(d, <<k>>, v)
         IN  UpdateKeys(d1, u, base_key, ks \ {k})

UpdateDict(d, u, base_key) == UpdateKeys(d, u, base_key, Keys(u))

\* keys_are_unique (automate_training.py:263-266)
KeysAreUnique(combination) ==
    Cardinality({combination[k].base_key : k \in DOMAIN combination}) = Len(combination)

\* get_base_keys (automate_training.py:269-275): first occurrences, in order
RECURSIVE GetBaseKeys(_)
GetBaseKeys(plist) ==
    IF plist = <<>> THEN <<>>
    ELSE LET before == GetBaseKeys(SubSeq(plist, 1, Len(plist) - 1))
             last   == plist[Len(plist)].base_key
         IN  IF last \in Range(before) THEN before ELSE Append(before, last)

\* list(itertools.combinations(lst, r)): the subsequences of length r, in
\* the order of their positions
RECURSIVE Combinations(_, _)
Combinations(lst, r) ==
    IF r = 0 THEN << <<>> >>
    ELSE IF Len(lst) < r THEN <<>>
    ELSE LET rest == Combinations(Tail(lst), r - 1)
         IN  [k \in DOMAIN rest |-> <<Head(lst)>> \o rest[k]]
             \o Combinations(Tail(lst), r)

\* the inner loops of automate_training.py:189-192 and 203-207: the options
\* are applied in turn and their names appended to the log directory
RECURSIVE ApplyOptions(_, _)
ApplyOptions(new_config, hyper_options) ==
    IF hyper_options = <<>> THEN new_config
    ELSE ApplyOptions(
             [dict |-> UpdateDict(new_config.dict, hyper_options[1].option,
                                  hyper_options[1].base_key),
              log_directory |-> Append(new_config.log_directory, hyper_options[1].name)],
             Tail(hyper_options))

\* a variant of OptionAt that takes the first option whatever the position
OptionAt_First(options, pos) == options[1]

\* base_key_dict[key][i] of automate_training.py:204, positions counted from 1
OptionAt(options, pos) == options[pos]

\* np.min of the lengths (automate_training.py:199)
MinLength(lengths) == CHOOSE n \in lengths : \A m \in lengths : n <= m

\* make_config_list (automate_training.py:150-216)
MakeConfigList(plist, init_config, combin, multi) ==
    IF combin
    THEN LET keys   == {plist[k].base_key : k \in DOMAIN plist}
             combos == SelectSeq(Combinations(plist, Cardinality(keys)), KeysAreUnique)
         IN  [k \in DOMAIN combos |-> ApplyOptions(init_config, combos[k])]
    ELSE IF multi
    THEN LET base_keys     == GetBaseKeys(plist)
             base_key_dict == [key \in Range(base_keys) |->
                                  SelectSeq(plist, LAMBDA o : o.base_key = key)]
             max_length    == MinLength({Len(base_key_dict[key]) : key \in Range(base_keys)})
         IN  [pos \in 1..max_length |->
                 ApplyOptions(init_config,
                     [k \in DOMAIN base_keys |-> OptionAt(base_key_dict[base_keys[k]], pos)])]
    ELSE [k \in DOMAIN plist |-> ApplyOptions(init_config, <<plist[k]>>)]

\* automate_training.py:494: param_list = get_param_list(config_hyper, [], [])
CallGetParamList ==
    /\ UNCHANGED not_config_vars
    /\ mpc = "params"
    /\ param_list' = GetParamList(config_hyper, <<>>, <<>>)
    /\ mpc' = "configs"
    /\ UNCHANGED <<config_hyper, initial_config, all_combin, multi_params, config_list>>

\* automate_training.py:495: config_list = make_config_list(...)
CallMakeConfigList ==
    /\ UNCHANGED not_config_vars
    /\ mpc = "configs"
    /\ config_list' = MakeConfigList(param_list, initial_config, all_combin, multi_params)
    /\ mpc' = "done"
    /\ UNCHANGED <<config_hyper, initial_config, all_combin, multi_params, param_list>>

ConfigNext ==
    \/ CallGetParamList
    \/ CallMakeConfigList

InitConfig == TestIdle /\ DropoutIdle /\ LoadIdle /\ IndexerIdle /\ AutoIdle /\ MidsliceIdle /\ ConfigInit

SpecConfig == InitConfig /\ [][ConfigNext]_vars

-----------------------------------------------------------------------------
\* Properties of get_param_list() and make_config_list()

\* the option lists of a hyperparameter file in file order, each with the key
\* path it is found at
RECURSIVE VariedLists(_, _)
VariedLists(my_dict, superkeys) ==
    IF my_dict = <<>> THEN <<>>
    ELSE LET key   == my_dict[1][1]
             value == my_dict[1][2]
         IN  (IF value.kind = "list"
              THEN <<[path |-> superkeys \o <<key>>, elems |-> value.body]>>
              ELSE VariedLists(value.body, superkeys \o <<key>>))
             \o VariedLists(Tail(my_dict), superkeys)

\* the varied hyperparameters of the file at hand
Varied == Range(VariedLists(config_hyper, <<>>))

\* the options of the file at hand in file order, each with its key path
RECURSIVE Flatten(_)
Flatten(lists) ==
    IF lists = <<>> THEN <<>>
    ELSE [e \in DOMAIN lists[1].elems |->
             [path |-> lists[1].path, element |-> lists[1].elems[e]]]
         \o Flatten(Tail(lists))

VariedOptions == Flatten(VariedLists(config_hyper, <<>>))

\* the product and the sum of the option counts
RECURSIVE ProductOfCounts(_)
ProductOfCounts(lists) ==
    IF lists = <<>> THEN 1 ELSE Len(lists[1].elems) * ProductOfCounts(Tail(lists))

RECURSIVE SumOfCounts(_)
SumOfCounts(lists) ==
    IF lists = <<>> THEN 0 ELSE Len(lists[1].elems) + SumOfCounts(Tail(lists))

\* the key path p lies under no varied hyperparameter
Unvaried(p) == \A L \in Varied : ~StartsWith(p, L.path)

\* C16: in every config make_config_list returns, what stands at the key path
\* of a varied hyperparameter is one of its options or the base value, and
\* every other key path of the config is a key path of the base config with
\* the base value, for every nesting depth of the hyperparameter.
C16_SameKeyPath ==
    mpc = "done" =>
        \A k \in DOMAIN config_list :
            LET c == config_list[k].dict
            IN  /\ \A L \in Varied :
                      SubAt(c, L.path) \in Range(L.elems) \cup {SubAt(initial_config.dict, L.path)}
                /\ \A p \in DOMAIN c \cup DOMAIN initial_config.dict :
                      Unvaried(p) =>
                          /\ p \in DOMAIN c
                          /\ p \in DOMAIN initial_config.dict
                          /\ c[p] = initial_config.dict[p]

\* C17: with all_combin, make_config_list returns one config for every
\* combination of one option per varied hyperparameter: their number is the
\* product of the option counts, each config carries one option of every
\* varied hyperparameter, and no two configs carry the same combination.
C17_AllCombinations ==
    (mpc = "done" /\ all_combin) =>
        /\ Len(config_list) = ProductOfCounts(VariedLists(config_hyper, <<>>))
        /\ \A k \in DOMAIN config_list : \A L \in Varied :
              SubAt(config_list[k].dict, L.path) \in Range(L.elems)
        /\ \A j, k \in DOMAIN config_list :
              j # k => \E L \in Varied :
                  SubAt(config_list[j].dict, L.path) # SubAt(config_list[k].dict, L.path)

\* C18: in the default mode make_config_list returns one config per option,
\* in file order (their number is the sum of the option counts), each being
\* the base config with that one parameter set to the option and with the
\* option's name appended to log_directory.
C18_OnePerOption ==
    (mpc = "done" /\ ~all_combin /\ ~multi_params) =>
        /\ Len(config_list) = SumOfCounts(VariedLists(config_hyper, <<>>))
        /\ \A k \in DOMAIN config_list :
              /\ config_list[k].dict =
                     PutAt(initial_config.dict, VariedOptions[k].path, VariedOptions[k].element)
              /\ Len(config_list[k].log_directory) = Len(initial_config.log_directory) + 1
              /\ SubSeq(config_list[k].log_directory, 1, Len(initial_config.log_directory))
                     = initial_config.log_directory

\* the configs that use the option at position pos of the list L
ConfigsUsing(L, pos) ==
    {k \in DOMAIN config_list : SubAt(config_list[k].dict, L.path) = L.elems[pos]}

OptionsOf(key) == SelectSeq(param_list, LAMBDA o : o.base_key = key)

BaseKeys == {param_list[k].base_key : k \in DOMAIN param_list}

\* the length of the shortest group of options
ShortestGroup == MinLength({Len(OptionsOf(key)) : key \in BaseKeys})

\* the config holds what the option dictionary holds
HoldsOption(c, o) == \A p \in DOMAIN o.option : p \in DOMAIN c.dict /\ c.dict[p] = o.option[p]

\* the option's name is part of the config's log directory
NamedIn(c, o) == \E k \in DOMAIN c.log_directory : k > 1 /\ c.log_directory[k] = o.name

-----------------------------------------------------------------------------
\* get_midslice_average() of preprocessing.py; the function of the same name
\* of prepare_dataset.py:108-130 computes the window in the same way

\* the indices arr[a:b] reads along an axis of length n: a negative bound
\* counts from the end, the range is clipped to the axis and b is excluded
PyBound(a, n) == IF a < 0 THEN (IF a + n < 0 THEN 0 ELSE a + n) ELSE (IF a > n THEN n ELSE a)

PySlice(a, b, n) == {k \in 0..(n - 1) : PyBound(a, n) <= k /\ k < PyBound(b, n)}

\* the volume has at least one slice and ind is the index of one of them
MidsliceInit ==
    /\ arr_shape \in 1..MaxSlices
    /\ ind \in 0..(arr_shape - 1)
    /\ numb_of_slice = 0
    /\ mid = {}
    /\ spc = "call"

\* preprocessing.py:23-26
CheckUpperBound ==
    /\ UNCHANGED not_midslice_vars
    /\ spc = "call"
    /\ numb_of_slice' = IF ind + 3 > arr_shape THEN arr_shape - ind ELSE 3
    /\ spc' = "lower"
    /\ UNCHANGED <<arr_shape, ind, mid>>

\* preprocessing.py:27-28
CheckLowerBound ==
    /\ UNCHANGED not_midslice_vars
    /\ spc = "lower"
    /\ numb_of_slice' = IF ind - numb_of_slice < 0 THEN ind ELSE numb_of_slice
    /\ spc' = "mean"
    /\ UNCHANGED <<arr_shape, ind, mid>>

\* preprocessing.py:30-32: the slices ind - numb_of_slice up to, and without,
\* ind + numb_of_slice are averaged
MeanOfSlices ==
    /\ UNCHANGED not_midslice_vars
    /\ spc = "mean"
    /\ mid' = PySlice(ind - numb_of_slice, ind + numb_of_slice, arr_shape)
    /\ spc' = "done"
    /\ UNCHANGED <<arr_shape, ind, numb_of_slice>>

MidsliceNext ==
    \/ CheckUpperBound
    \/ CheckLowerBound
    \/ MeanOfSlices

InitMidslice ==
    TestIdle /\ DropoutIdle /\ LoadIdle /\ IndexerIdle /\ AutoIdle /\ ConfigIdle /\ MidsliceInit

SpecMidslice == InitMidslice /\ [][MidsliceNext]_vars

\* C25: get_midslice_average averages the 7 slices centred on ind (ind-3 to
\* ind+3) whenever that range fits in the volume, and for every 0 <= ind < n
\* otherwise shrinks the window symmetrically, so that the range read stays
\* within [0, n) and is never empty.
C25_SevenSlicesOrShrunk ==
    spc = "done" =>
        /\ (ind - 3 >= 0 /\ ind + 3 <= arr_shape - 1) => mid = (ind - 3)..(ind + 3)
        /\ \E k \in 0..3 : mid = (ind - k)..(ind + k)
        /\ mid \subseteq 0..(arr_shape - 1)
        /\ mid # {}

====
